---- MODULE Spec2Model ----
(***************************************************************************)
(* A model of the query permission and execution pipeline of the MariaDB   *)
(* MCP server: the SQL command classifier (permissionService.ts), the      *)
(* pool-backed query executor (connection.ts) and the schema analysis      *)
(* orchestrator (dbService.ts).                                            *)
(*                                                                         *)
(* SQL text is a sequence of lexical pieces.  A piece is a separator       *)
(* character (" ", "\n", ";", "(", ")"), a comment delimiter ("--", "/*",  *)
(* "*/") or a run of letters (a keyword in upper or lower case, or "X",    *)
(* any other identifier character).  Adjacent letter runs form one word,   *)
(* as adjacent characters do in the source string.                         *)
(***************************************************************************)
EXTENDS Integers, Sequences, FiniteSets, TLC

(***************************************************************************)
(* Bounds of the model.                                                    *)
(***************************************************************************)
\* Longest SQL text, in lexical pieces, given to checkPermissions.
MaxQueryLen == 3
\* Concurrent executeQuery calls.
MaxTasks == 2
\* Rows a result set may have beyond DEFAULT_ROW_LIMIT.
MaxExtraRows == 2
\* Longest list of table names given to analyzeTables.
MaxTables == 2
\* Tool calls the server handles.
MaxToolCalls == 3
\* Calls in flight on one pool, for the pool's limit.
MaxCalls == 4

(***************************************************************************)
(* permissionService.ts: the command lists.                                *)
(***************************************************************************)
DQL_COMMANDS ==
    {"SELECT", "SHOW", "DESCRIBE", "DESC", "EXPLAIN"}
DML_COMMANDS ==
    {"INSERT", "UPDATE", "DELETE", "REPLACE"}
DDL_COMMANDS ==
    {"CREATE", "ALTER", "DROP", "TRUNCATE", "RENAME"}
ALWAYS_DISALLOWED_COMMANDS ==
    {"GRANT", "REVOKE", "SET", "LOCK", "UNLOCK", "CALL", "EXEC", "EXECUTE",
    "PREPARE", "DEALLOCATE", "START", "BEGIN", "COMMIT", "ROLLBACK",
    "SAVEPOINT", "USE"}
OtherWords ==
    {"FLUSH", "OPTIMIZE"}
CasePairs ==
    {<<"select", "SELECT">>, <<"show", "SHOW">>, <<"describe", "DESCRIBE">>,
    <<"desc", "DESC">>, <<"explain", "EXPLAIN">>, <<"insert", "INSERT">>,
    <<"update", "UPDATE">>, <<"delete", "DELETE">>, <<"replace", "REPLACE">>,
    <<"create", "CREATE">>, <<"alter", "ALTER">>, <<"drop", "DROP">>,
    <<"truncate", "TRUNCATE">>, <<"rename", "RENAME">>, <<"grant", "GRANT">>,
    <<"revoke", "REVOKE">>, <<"set", "SET">>, <<"lock", "LOCK">>, <<"unlock",
    "UNLOCK">>, <<"call", "CALL">>, <<"exec", "EXEC">>, <<"execute",
    "EXECUTE">>, <<"prepare", "PREPARE">>, <<"deallocate", "DEALLOCATE">>,
    <<"start", "START">>, <<"begin", "BEGIN">>, <<"commit", "COMMIT">>,
    <<"rollback", "ROLLBACK">>, <<"savepoint", "SAVEPOINT">>, <<"use",
    "USE">>, <<"flush", "FLUSH">>, <<"optimize", "OPTIMIZE">>}

\* Words that are in none of the four lists.
Words ==
    DQL_COMMANDS \cup DML_COMMANDS \cup DDL_COMMANDS
        \cup ALWAYS_DISALLOWED_COMMANDS \cup OtherWords

Whitespace == {" ", "\n"}

\* The characters of the split pattern /[\s;()]+/.
Separators == Whitespace \cup {";", "(", ")"}

\* String.prototype.toUpperCase on one lexical piece.
ToUpperCase(piece) ==
    IF \E p \in CasePairs : p[1] = piece
    THEN (CHOOSE p \in CasePairs : p[1] = piece)[2]
    ELSE IF piece = "x" THEN "X"
    ELSE IF piece \in {"a", "b", "c", "d", "e", "f", "t"}
    THEN CHOOSE u \in {"A", "B", "C", "D", "E", "F", "T"} :
            <<piece, u>> \in {<<"a", "A">>, <<"b", "B">>, <<"c", "C">>,
                              <<"d", "D">>, <<"e", "E">>, <<"f", "F">>,
                              <<"t", "T">>}
    ELSE piece

ToLowerCase(piece) ==
    IF \E p \in CasePairs : p[2] = piece
    THEN (CHOOSE p \in CasePairs : p[2] = piece)[1]
    ELSE IF piece = "X" THEN "x" ELSE piece

(***************************************************************************)
(* permissionService.ts: normalizeQuery.                                   *)
(***************************************************************************)
RECURSIVE SkipLine(_)
\* The rest of the text from the end of the current line on.
SkipLine(q) ==
    IF q = <<>> \/ Head(q) = "\n" THEN q ELSE SkipLine(Tail(q))

RECURSIVE StripLineComments(_)
\* A slip: replace(/--/g, ""), the text of the comment stays.
StripLineComments_MarkerOnly(q) ==
    IF q = <<>> THEN <<>>
    ELSE IF Head(q) = "--" THEN StripLineComments(Tail(q))
    ELSE <<Head(q)>> \o StripLineComments(Tail(q))

\* replace(/--.*$/gm, ""): "--" and what follows it on its line.
StripLineComments(q) ==
    IF q = <<>> THEN <<>>
    ELSE IF Head(q) = "--" THEN StripLineComments(SkipLine(Tail(q)))
    ELSE <<Head(q)>> \o StripLineComments(Tail(q))

\* Is there a "*/" in q ?
HasClose(q) == \E i \in 1..Len(q) : q[i] = "*/"

\* q after its first "*/".
AfterClose(q) ==
    LET i == CHOOSE k \in 1..Len(q) :
                 q[k] = "*/" /\ \A j \in 1..(k - 1) : q[j] # "*/"
    IN  SubSeq(q, i + 1, Len(q))

RECURSIVE StripBlockComments(_)
\* replace(/\/\*[\s\S]*?\*\//g, ""): "/*" up to the first "*/" after it; a
\* "/*" that is never closed stays.
StripBlockComments(q) ==
    IF q = <<>> THEN <<>>
    ELSE IF Head(q) = "/*" /\ HasClose(Tail(q))
         THEN StripBlockComments(AfterClose(Tail(q)))
    ELSE <<Head(q)>> \o StripBlockComments(Tail(q))

RECURSIVE CollapseWhitespace(_)
\* replace(/\s+/g, " ")
CollapseWhitespace(q) ==
    IF q = <<>> THEN <<>>
    ELSE IF Head(q) \in Whitespace
         THEN IF Len(q) > 1 /\ q[2] \in Whitespace
              THEN CollapseWhitespace(Tail(q))
              ELSE <<" ">> \o CollapseWhitespace(Tail(q))
    ELSE <<Head(q)>> \o CollapseWhitespace(Tail(q))

RECURSIVE TrimStart(_)
TrimStart(q) ==
    IF q # <<>> /\ Head(q) \in Whitespace THEN TrimStart(Tail(q)) ELSE q

RECURSIVE TrimEnd(_)
TrimEnd(q) ==
    IF q # <<>> /\ q[Len(q)] \in Whitespace
    THEN TrimEnd(SubSeq(q, 1, Len(q) - 1))
    ELSE q

\* String.prototype.trim
Trim(q) == TrimEnd(TrimStart(q))

UpperCase(q) == [i \in 1..Len(q) |-> ToUpperCase(q[i])]

normalizeQuery(query) ==
    UpperCase(Trim(CollapseWhitespace(
        StripBlockComments(StripLineComments(query)))))

(***************************************************************************)
(* permissionService.ts: checkPermissions.                                 *)
(***************************************************************************)
RECURSIVE FirstToken(_)
\* split(/[\s;()]+/)[0]: the text before the first separator, which is
\* empty when the text starts with one.
FirstToken(q) ==
    IF q = <<>> \/ Head(q) \in Separators THEN <<>>
    ELSE <<Head(q)>> \o FirstToken(Tail(q))

\* A slip: command.startsWith(word) for a word of the list.
Includes_Prefix(list, command) == Len(command) >= 1 /\ command[1] \in list

\* list.includes(command): the command is one word of the list.
Includes(list, command) == Len(command) = 1 /\ command[1] \in list

\* A slip: the trailing semicolon is not taken off before the test.
TrimmedQuery_Untrimmed(normalizedQuery) == normalizedQuery

\* The statement without one trailing semicolon.
TrimmedQuery(normalizedQuery) ==
    IF normalizedQuery # <<>> /\ normalizedQuery[Len(normalizedQuery)] = ";"
    THEN SubSeq(normalizedQuery, 1, Len(normalizedQuery) - 1)
    ELSE normalizedQuery

\* A slip: the test for several statements is left out.
MultipleStatements_Unchecked(normalizedQuery) == FALSE

\* trimmedQuery.includes(";")
MultipleStatements(normalizedQuery) ==
    LET trimmedQuery == TrimmedQuery(normalizedQuery)
    IN  \E i \in 1..Len(trimmedQuery) : trimmedQuery[i] = ";"

\* A slip: the two flags the wrong way round.
checkPermissions_FlagsSwapped(query, allowDml, allowDdl) ==
    LET normalizedQuery == normalizeQuery(query)
        command == FirstToken(normalizedQuery)
    IN  IF normalizedQuery = <<>> THEN FALSE
        ELSE IF MultipleStatements(normalizedQuery) THEN FALSE
        ELSE IF command = <<>> THEN FALSE
        ELSE IF Includes(ALWAYS_DISALLOWED_COMMANDS, command) THEN FALSE
        ELSE IF Includes(DQL_COMMANDS, command) THEN TRUE
        ELSE IF Includes(DML_COMMANDS, command) THEN allowDdl
        ELSE IF Includes(DDL_COMMANDS, command) THEN allowDml
        ELSE FALSE

\* A slip: the test of allowDdl the wrong way round.
checkPermissions_DdlInverted(query, allowDml, allowDdl) ==
    LET normalizedQuery == normalizeQuery(query)
        command == FirstToken(normalizedQuery)
    IN  IF normalizedQuery = <<>> THEN FALSE
        ELSE IF MultipleStatements(normalizedQuery) THEN FALSE
        ELSE IF command = <<>> THEN FALSE
        ELSE IF Includes(ALWAYS_DISALLOWED_COMMANDS, command) THEN FALSE
        ELSE IF Includes(DQL_COMMANDS, command) THEN TRUE
        ELSE IF Includes(DML_COMMANDS, command) THEN allowDml
        ELSE IF Includes(DDL_COMMANDS, command) THEN ~allowDdl
        ELSE FALSE

checkPermissions(query, allowDml, allowDdl) ==
    LET normalizedQuery == normalizeQuery(query)
        command == FirstToken(normalizedQuery)
    IN  IF normalizedQuery = <<>> THEN FALSE
        ELSE IF MultipleStatements(normalizedQuery) THEN FALSE
        ELSE IF command = <<>> THEN FALSE
        ELSE IF Includes(ALWAYS_DISALLOWED_COMMANDS, command) THEN FALSE
        ELSE IF Includes(DQL_COMMANDS, command) THEN TRUE
        ELSE IF Includes(DML_COMMANDS, command) THEN allowDml
        ELSE IF Includes(DDL_COMMANDS, command) THEN allowDdl
        ELSE FALSE

(***************************************************************************)
(* connection.ts: constants and result post-processing.                    *)
(***************************************************************************)
DEFAULT_ROW_LIMIT == 1000
\* Milliseconds a statement may take.
DEFAULT_TIMEOUT == 10000

\* connectionLimit of the pool made by createConnectionPool.
connectionLimit == 2

Conns == 1..connectionLimit
Tasks == 1..MaxTasks

\* A column value is a Buffer [buf |-> bytes], a string [str |-> characters]
\* or a number [num |-> n].
IsBuffer(v) == "buf" \in DOMAIN v

HexDigits ==
    <<"0", "1", "2", "3", "4", "5", "6", "7",
      "8", "9", "a", "b", "c", "d", "e", "f">>

RECURSIVE HexOf_Upper(_)
\* A slip: the digits in upper case.
HexOf_Upper(bytes) ==
    IF bytes = <<>> THEN <<>>
    ELSE <<ToUpperCase(HexDigits[(Head(bytes) \div 16) + 1]),
           ToUpperCase(HexDigits[(Head(bytes) % 16) + 1])>>
             \o HexOf_Upper(Tail(bytes))

RECURSIVE HexOf(_)
\* Buffer.prototype.toString('hex'): two lowercase digits a byte.
HexOf(bytes) ==
    IF bytes = <<>> THEN <<>>
    ELSE <<HexDigits[(Head(bytes) \div 16) + 1],
           HexDigits[(Head(bytes) % 16) + 1]>> \o HexOf(Tail(bytes))

\* The copy {...row} with every Buffer value replaced by its hex text.
ProcessRow(row) ==
    [key \in DOMAIN row |->
        IF IsBuffer(row[key]) THEN [str |-> HexOf(row[key].buf)] ELSE row[key]]

\* rows.map(row => processedRow)
ProcessRows(rows) == [i \in 1..Len(rows) |-> ProcessRow(rows[i])]

\* A slip: slice(-DEFAULT_ROW_LIMIT), the last rows instead of the first.
LimitRows_KeepsLast(processedRows) ==
    IF Len(processedRows) > DEFAULT_ROW_LIMIT
    THEN SubSeq(processedRows, Len(processedRows) - DEFAULT_ROW_LIMIT + 1,
                Len(processedRows))
    ELSE processedRows

\* processedRows.length > DEFAULT_ROW_LIMIT ? slice(0, DEFAULT_ROW_LIMIT) : all
LimitRows(processedRows) ==
    IF Len(processedRows) > DEFAULT_ROW_LIMIT
    THEN SubSeq(processedRows, 1, DEFAULT_ROW_LIMIT)
    ELSE processedRows

\* What the database answers to a statement is [array |-> TRUE, rows |-> a
\* sequence of rows] or, for a statement without a result set, [array |->
\* FALSE, rows |-> the OK packet].  The value executeQuery returns for it:
ResultOf(answer) ==
    IF answer.array
    THEN [array |-> TRUE, rows |-> LimitRows(ProcessRows(answer.rows))]
    ELSE answer

(***************************************************************************)
(* State.                                                                  *)
(***************************************************************************)
VARIABLES
    server,      \* index.ts: the pools made, the tool calls handled, exit
    query,       \* classifier: the SQL text under classification
    permLog,     \* classifier: the checkPermissions calls made, with verdicts
    config,      \* the configuration given to createConnectionPool
    poolDetails, \* the handle made by createConnectionPool
    env,         \* the process environment read by getConfigFromEnv
    holder,      \* pool: the task each connection is handed to, 0 when idle
    exec,        \* the executeQuery activation of each task
    an           \* the analyzeTables activation of each task

vars ==
    <<server, query, permLog, config, poolDetails, env, holder, exec, an>>

NoDatabase == <<>>
\* The server before its first tool call.
IdleServer == [pools |-> <<>>, handled |-> <<>>, stopped |-> FALSE]
\* No answer yet.
NoRows == [array |-> FALSE]

\* No executeQuery call made yet.
IdleExec ==
    [pc |-> "idle", sql |-> <<>>, params |-> <<>>, database |-> NoDatabase,
     allowDml |-> FALSE, allowDdl |-> FALSE,
     conn |-> 0, error |-> "none", answer |-> NoRows, result |-> NoRows,
     acquired |-> 0, released |-> 0, sent |-> <<>>]

(***************************************************************************)
(* connection.ts: the configuration and the handle.  Of a configuration    *)
(* the model keeps whether host, user and password are there, the default  *)
(* database and the two permissions.                                       *)
(***************************************************************************)
\* createConnectionPool() called without a configuration object.
NoConfig ==
    [given |-> FALSE, complete |-> FALSE, database |-> NoDatabase,
     allow_dml |-> FALSE, allow_ddl |-> FALSE]

\* getConfigFromEnv(): throws when the host, the user or the password is not
\* in the environment.
ConfigFromEnvThrows == ~env.complete

\* What getConfigFromEnv() returns when it does not throw.
getConfigFromEnv ==
    [given |-> TRUE, complete |-> TRUE, database |-> env.database,
     allow_dml |-> env.allow_dml, allow_ddl |-> env.allow_ddl]

\* Line 35: config || getConfigFromEnv()
PoolConfig(cfg) == IF cfg.given THEN cfg ELSE getConfigFromEnv

\* createConnectionPool(cfg) throws: only getConfigFromEnv can, as
\* mariadb.createPool opens no connection.
CreationThrows(cfg) == ~cfg.given /\ ConfigFromEnvThrows

\* The handle createConnectionPool(cfg) returns: the new pool, with the
\* default database of its connections, and the two permissions.
createConnectionPool(cfg) ==
    [pool |-> [ended |-> FALSE, database |-> PoolConfig(cfg).database],
     allowDml |-> PoolConfig(cfg).allow_dml,
     allowDdl |-> PoolConfig(cfg).allow_ddl]

\* A slip: a pool that hands out connections after pool.end().
PoolGives_Always(pool) == TRUE

\* pool.getConnection() can resolve: the connector rejects every request
\* made on a pool that was ended.
PoolGives(pool) == ~pool.ended

\* endConnection(pool): pool.end(), whose failure is logged and swallowed.
EndConnection ==
    /\ poolDetails' = [poolDetails EXCEPT !.pool.ended = TRUE]
    /\ UNCHANGED <<server, query, permLog, config, env, holder, exec, an>>

(***************************************************************************)
(* The pool of the mariadb connector.                                      *)
(***************************************************************************)
\* A slip: a release that never returns the connection.
ReleaseOutcomes_Leaks(h, k, t) == {h}

\* conn.release() by task t on connection k.  The connector returns the
\* connection to the idle set.  A release of a connection the task no longer
\* holds either does nothing or frees it under its current holder: which of
\* the two is the connector's business, so both are kept.
ReleaseOutcomes(h, k, t) ==
    IF h[k] = t THEN {[h EXCEPT ![k] = 0]}
    ELSE {h, [h EXCEPT ![k] = 0]}

(***************************************************************************)
(* connection.ts: executeQuery, one action for each stretch of code        *)
(* between two awaits.                                                     *)
(***************************************************************************)
\* The backquote character.
Backquote == "BACKQUOTE"

\* The text USE <backquote>${database}<backquote>
UseStatement(database) ==
    <<"USE", " ", Backquote>> \o database \o <<Backquote>>

\* The catch block with a connection: conn.release() is called and awaited.
EnterCatch(e, err) ==
    [e EXCEPT !.error = err, !.released = @ + 1, !.pc = "catchRelease"]

\* A slip: the statement is sent whatever the classifier says.
Permitted_Unchecked(e) == TRUE

\* Lines 97-120: the permission check, then conn.query(queryOptions).
\* TRUE when the activation e goes on to send its statement.
Permitted(e) == checkPermissions(e.sql, e.allowDml, e.allowDdl)

SendQuery(e) ==
    [e EXCEPT !.sent = Append(@, [kind |-> "statement", text |-> e.sql]),
              !.pc = "query"]

\* What follows once the connection is ready for the statement: the
\* statement is sent, or the denial is thrown and the catch block releases.
\* h is the pool as the activation e found it.
CheckAndSend(t, e, h) ==
    IF Permitted(e)
    THEN /\ exec' = [exec EXCEPT ![t] = SendQuery(e)]
         /\ holder' = h
    ELSE /\ exec' = [exec EXCEPT ![t] = EnterCatch(e, "NotPermitted")]
         /\ holder' \in ReleaseOutcomes(h, e.conn, t)

\* The activation of executeQuery(pool, allowDml, allowDdl, sql, params,
\* database) at `await pool.getConnection()`.
Activation(allowDml, allowDdl, sql, params, database) ==
    [IdleExec EXCEPT !.pc = "getConnection",
                     !.sql = sql,
                     !.params = params,
                     !.database = database,
                     !.allowDml = allowDml,
                     !.allowDdl = allowDdl]

\* The params array a caller gives with sql: one value for each "?".
ParamsFor(sql) ==
    [i \in 1..Cardinality({j \in 1..Len(sql) : sql[j] = "?"}) |-> [num |-> i]]

\* Lines 104-117: the options handed to conn.query for activation e.
QueryOptions(e) ==
    [metaAsArray |-> TRUE, namedPlaceholders |-> TRUE, sql |-> e.sql,
     timeout |-> DEFAULT_TIMEOUT, values |-> e.params]

\* A caller calls executeQuery(poolDetails.pool, allowDml, allowDdl, sql,
\* params, database): the two permissions are arguments of their own,
\* whatever the handle of the pool holds.
ExecuteQuery(t, sqls, databases, policies) ==
    /\ exec[t].pc = "idle"
    /\ \A u \in 1..(t - 1) : exec[u].pc # "idle"
    /\ \E sql \in sqls, database \in databases, policy \in policies :
          exec' = [exec EXCEPT ![t] =
                      Activation(policy.allowDml, policy.allowDdl,
                                 sql, ParamsFor(sql), database)]
    /\ UNCHANGED <<server, query, permLog, config, poolDetails, env, holder, an>>

\* executeQuery called without a pool: thrown before the try block.
ExecuteQueryNoPool(t, sqls) ==
    /\ exec[t].pc = "idle"
    /\ \A u \in 1..(t - 1) : exec[u].pc # "idle"
    /\ \E sql \in sqls :
          exec' = [exec EXCEPT ![t] =
                      [IdleExec EXCEPT !.pc = "failed", !.sql = sql,
                                       !.error = "NoPool"]]
    /\ UNCHANGED <<server, query, permLog, config, poolDetails, env, holder, an>>

\* pool.getConnection() resolves with an idle connection; with a database
\* the USE statement is sent, without one the statement is checked.
GetConnectionResolves(t) ==
    /\ exec[t].pc = "getConnection"
    /\ PoolGives(poolDetails.pool)
    /\ \E k \in Conns :
          /\ holder[k] = 0
          /\ LET e == [exec[t] EXCEPT !.conn = k, !.acquired = @ + 1]
                 h == [holder EXCEPT ![k] = t]
             IN  IF e.database # NoDatabase
                 THEN /\ exec' = [exec EXCEPT ![t] =
                             [e EXCEPT !.sent = Append(@, [kind |-> "use",
                                           text |-> UseStatement(e.database)]),
                                       !.pc = "use"]]
                      /\ holder' = h
                 ELSE CheckAndSend(t, e, h)
    /\ UNCHANGED <<server, query, permLog, config, poolDetails, env, an>>

\* pool.getConnection() rejects: the catch and finally blocks find conn null
\* and release nothing.
GetConnectionRejects(t) ==
    /\ exec[t].pc = "getConnection"
    /\ exec' = [exec EXCEPT ![t] =
                   [@ EXCEPT !.error = "ConnectionFailure", !.pc = "failed"]]
    /\ UNCHANGED <<server, query, permLog, config, poolDetails, env, holder, an>>

\* The USE statement succeeds.
UseResolves(t) ==
    /\ exec[t].pc = "use"
    /\ CheckAndSend(t, exec[t], holder)
    /\ UNCHANGED <<server, query, permLog, config, poolDetails, env, an>>

\* The USE statement fails.
UseRejects(t) ==
    /\ exec[t].pc = "use"
    /\ exec' = [exec EXCEPT ![t] = EnterCatch(@, "UseFailed")]
    /\ holder' \in ReleaseOutcomes(holder, exec[t].conn, t)
    /\ UNCHANGED <<server, query, permLog, config, poolDetails, env, an>>

\* The leading word of a statement the classifier let through.
Command(sql) == FirstToken(normalizeQuery(sql))

\* conn.query(queryOptions) resolves; lines 123-152 make the return value and
\* the finally block calls conn.release().
QueryResolves(t, answers) ==
    /\ exec[t].pc = "query"
    /\ \E answer \in answers :
          /\ answer.array = Includes(DQL_COMMANDS, Command(exec[t].sql))
          /\ exec' = [exec EXCEPT ![t] =
                         [@ EXCEPT !.answer = answer,
                                   !.result = ResultOf(answer),
                                   !.released = @ + 1,
                                   !.pc = "finallyRelease"]]
    /\ holder' \in ReleaseOutcomes(holder, exec[t].conn, t)
    /\ UNCHANGED <<server, query, permLog, config, poolDetails, env, an>>

\* conn.query(queryOptions) rejects: a database error or the timeout.
QueryRejects(t) ==
    /\ exec[t].pc = "query"
    /\ \E err \in {"ExecutionFailed", "Timeout"} :
          exec' = [exec EXCEPT ![t] = EnterCatch(@, err)]
    /\ holder' \in ReleaseOutcomes(holder, exec[t].conn, t)
    /\ UNCHANGED <<server, query, permLog, config, poolDetails, env, an>>

\* The release awaited in the catch block settles; the error is thrown again
\* and the finally block calls conn.release().
CatchReleaseSettles(t) ==
    /\ exec[t].pc = "catchRelease"
    /\ exec' = [exec EXCEPT ![t] =
                   [@ EXCEPT !.released = @ + 1, !.pc = "finallyRelease"]]
    /\ holder' \in ReleaseOutcomes(holder, exec[t].conn, t)
    /\ UNCHANGED <<server, query, permLog, config, poolDetails, env, an>>

\* The release awaited in the finally block settles: the call completes.
FinallyReleaseSettles(t) ==
    /\ exec[t].pc = "finallyRelease"
    /\ exec' = [exec EXCEPT ![t] =
                   [@ EXCEPT !.pc = IF exec[t].error = "none"
                                    THEN "returned" ELSE "failed"]]
    /\ UNCHANGED <<server, query, permLog, config, poolDetails, env, holder, an>>

(***************************************************************************)
(* dbService.ts: analyzeTables.                                            *)
(*                                                                         *)
(* A database or table name is a sequence of characters.                   *)
(***************************************************************************)
IdentifierChars ==
    {"a", "b", "d", "o", "p", "r", "t", "T", "1", "2", "_"}

\* /^[a-zA-Z0-9_]+$/.test(name)
IsIdentifier(name) ==
    /\ name # <<>>
    /\ \A i \in 1..Len(name) : name[i] \in IdentifierChars

COLUMNS_BASIC == "COLUMNS_BASIC"
COLUMNS_FULL == "COLUMNS_FULL"
FOREIGN_KEYS == "FOREIGN_KEYS"
INDEXES_BASIC == "INDEXES_BASIC"
INDEXES_FULL == "INDEXES_FULL"

\* A slip: BASIC mapped to the flags of STANDARD.
detailLevelToFlags_BasicAsStandard(level) ==
    IF level \in {"BASIC", "STANDARD"}
    THEN {COLUMNS_BASIC, FOREIGN_KEYS, INDEXES_BASIC}
    ELSE IF level = "FULL"
         THEN {COLUMNS_FULL, FOREIGN_KEYS, INDEXES_FULL}
    ELSE {}

\* detailLevelToFlags[level], the empty set standing for undefined.
detailLevelToFlags(level) ==
    IF level = "BASIC" THEN {COLUMNS_BASIC}
    ELSE IF level = "STANDARD"
         THEN {COLUMNS_BASIC, FOREIGN_KEYS, INDEXES_BASIC}
    ELSE IF level = "FULL"
         THEN {COLUMNS_FULL, FOREIGN_KEYS, INDEXES_FULL}
    ELSE {}

\* A missing detailLevel argument.
NoDetailLevel == "undefined"

\* A slip: the level looked up as it was given.
DetailUpperCase_AsGiven(level) == level

\* detailLevel.toUpperCase() for the levels callers give.
DetailUpperCase(level) ==
    IF level \in {"basic", "Basic"} THEN "BASIC"
    ELSE IF level \in {"standard", "Standard"} THEN "STANDARD"
    ELSE IF level \in {"full", "Full"} THEN "FULL"
    ELSE IF level = "verbose" THEN "VERBOSE"
    ELSE level

\* Lines 58-61.
FlagsOf(detailLevel) ==
    LET upper == IF detailLevel = NoDetailLevel THEN ""
                 ELSE DetailUpperCase(detailLevel)
        effectiveDetailLevel == IF upper = "" THEN "STANDARD" ELSE upper
    IN  IF detailLevelToFlags(effectiveDetailLevel) # {}
        THEN detailLevelToFlags(effectiveDetailLevel)
        ELSE detailLevelToFlags("STANDARD")

\* The statements of the fetchers.  Each is the text of its template
\* literal: the line break and indentation before SELECT, the semicolon and
\* the line break after it.
checkSql ==
    <<"\n", " ", "SELECT", " ", "COUNT", "(", "X", ")", " ", "X", "\n", " ",
      "TABLES", ";", "\n", " ">>
basicColumnsSql ==
    <<"\n", " ", "SELECT", "\n", " ", "COLUMNS", "\n", " ", "BASIC", ";", "\n", " ">>
fullColumnsSql ==
    <<"\n", " ", "SELECT", "\n", " ", "COLUMNS", "\n", " ", "FULL", ";", "\n", " ">>
foreignKeysSql ==
    <<"\n", " ", "SELECT", "\n", " ", "KEY_COLUMN_USAGE", ";", "\n", " ">>
\* with its line comment after SEQ_IN_INDEX
basicIndexesSql ==
    <<"\n", " ", "SELECT", "\n", " ", "STATISTICS", " ", "--", " ", "X", "\n",
      " ", "X", ";", "\n", " ">>
\* `SHOW INDEX FROM <backquote>${tableName}<backquote>`
fullIndexesSql(tableName) ==
    <<"SHOW", " ", "INDEX", " ", "FROM", " ", Backquote>>
        \o tableName \o <<Backquote>>

\* f with f[k] = v, as `f[k] = v` leaves an object.
Put(f, k, v) == [x \in DOMAIN f \cup {k} |-> IF x = k THEN v ELSE f[x]]

\* The object {}.
EmptyObject == <<>>

\* The name __proto__.
ProtoName == <<"_", "_", "p", "r", "o", "t", "o", "_", "_">>

\* Object.keys(results), the keys JSON.stringify writes: the own keys.  An
\* assignment results["__proto__"] = entry sets the prototype of results,
\* which results["__proto__"] then reads, and makes no own key.
OwnKeys(results) == DOMAIN results \ {ProtoName}

ErrorEntry(message) == Put(EmptyObject, "error", message)

InvalidTableNameMessage == <<"Invalid table name format.">>

NotExistMessage(tableName, dbName) ==
    <<"Table '">> \o tableName \o <<"' does not exist in database '">>
        \o dbName \o <<"'.">>

CheckFailedMessage(tableName, error) ==
    <<"Failed to check existence for table '">> \o tableName
        \o <<"': ", error>>

AnalyzeFailedMessage(error) == <<"Failed to analyze table: ", error>>

\* No analyzeTables call made yet.
IdleAnalysis ==
    [pc |-> "idle", given |-> FALSE, tableNames |-> <<>>,
     detailLevel |-> NoDetailLevel,
     database |-> NoDatabase, flags |-> {}, dbName |-> <<>>,
     i |-> 0, phase |-> "none", tableResult |-> EmptyObject,
     results |-> EmptyObject, error |-> "none", issued |-> <<>>]

\* The facet fetched after `phase` under the flags, "done" after the last.
FacetAfter(flags, phase) ==
    IF phase = "check"
       /\ (COLUMNS_FULL \in flags \/ COLUMNS_BASIC \in flags)
    THEN "columns"
    ELSE IF phase \in {"check", "columns"} /\ FOREIGN_KEYS \in flags
    THEN "foreign_keys"
    ELSE IF phase \in {"check", "columns", "foreign_keys"}
            /\ (INDEXES_FULL \in flags \/ INDEXES_BASIC \in flags)
    THEN "indexes"
    ELSE "done"

\* The executeQuery call the analysis a makes for its phase: the existence
\* check of lines 87-93 or the call of one fetcher.
CallOf(a) ==
    LET tableName == a.tableNames[a.i]
        named == [dbName |-> a.dbName, tableName |-> tableName]
    IN  IF a.phase = "check"
        THEN [sql |-> checkSql, params |-> named, database |-> NoDatabase]
        ELSE IF a.phase = "columns"
        THEN [sql |-> IF COLUMNS_FULL \in a.flags THEN fullColumnsSql
                                                  ELSE basicColumnsSql,
              params |-> named, database |-> NoDatabase]
        ELSE IF a.phase = "foreign_keys"
        THEN [sql |-> foreignKeysSql, params |-> named, database |-> NoDatabase]
        ELSE IF INDEXES_FULL \in a.flags
        THEN [sql |-> fullIndexesSql(tableName), params |-> <<>>,
              database |-> a.dbName]
        ELSE [sql |-> basicIndexesSql, params |-> named, database |-> NoDatabase]

\* The analysis a calling executeQuery for `phase` of its table i.
Awaiting(a, phase) ==
    LET calling == [a EXCEPT !.pc = "running", !.phase = phase]
    IN  [calling EXCEPT
           !.issued = Append(@, [table |-> a.i, what |-> phase,
                                 sql |-> CallOf(calling).sql])]

RECURSIVE ForLoop(_)
\* The loop without the validation of lines 79-83.
ForLoop_Unvalidated(a) ==
    IF a.i > Len(a.tableNames)
    THEN [a EXCEPT !.pc = "returned", !.phase = "none"]
    ELSE Awaiting(a, "check")

\* The for loop of lines 77-151 from table a.i on, up to its next await (the
\* existence check of a well-formed name) or to the return of line 153.
ForLoop(a) ==
    IF a.i > Len(a.tableNames)
    THEN [a EXCEPT !.pc = "returned", !.phase = "none"]
    ELSE IF ~IsIdentifier(a.tableNames[a.i])
    THEN ForLoop([a EXCEPT
                    !.results = Put(@, a.tableNames[a.i],
                                    ErrorEntry(InvalidTableNameMessage)),
                    !.i = @ + 1])
    ELSE Awaiting(a, "check")

\* The loop going on to the table after a.i, whose entry is `entry`.
NextTable(a, entry) ==
    ForLoop([a EXCEPT !.results = Put(@, a.tableNames[a.i], entry),
                      !.tableResult = EmptyObject,
                      !.i = @ + 1])

EmptyListError == "InvalidParams: table_names array cannot be empty"

\* Without the check of lines 51-56.
ArgumentError_EmptyUnchecked(given, tableNames, database) ==
    IF database = NoDatabase /\ ConfigFromEnvThrows
    THEN "Error: environment variable is required"
    ELSE LET dbName == IF database # NoDatabase THEN database ELSE env.database
         IN  IF dbName = NoDatabase
             THEN "InvalidParams: Database name is required"
             ELSE IF ~IsIdentifier(dbName)
             THEN "InvalidParams: Invalid database name format."
             ELSE "none"

\* Lines 51-73: what analyzeTables throws before its loop, "none" if nothing.
\* `given` is false for a call without a tableNames list.
ArgumentError(given, tableNames, database) ==
    IF ~given \/ tableNames = <<>> THEN EmptyListError
    ELSE IF database = NoDatabase /\ ConfigFromEnvThrows
    THEN "Error: environment variable is required"
    ELSE LET dbName == IF database # NoDatabase THEN database ELSE env.database
         IN  IF dbName = NoDatabase
             THEN "InvalidParams: Database name is required"
             ELSE IF ~IsIdentifier(dbName)
             THEN "InvalidParams: Invalid database name format."
             ELSE "none"

\* The activation of executeQuery a running analysis awaits, none otherwise.
CallMade(a) ==
    IF a.pc = "running"
    THEN Activation(poolDetails.allowDml, poolDetails.allowDdl,
                    CallOf(a).sql, CallOf(a).params, CallOf(a).database)
    ELSE IdleExec

\* analyzeTables(poolDetails, tableNames, detailLevel, database) up to its
\* first executeQuery call, its throw or its return.
AnalyzeTables(t, lists, levels, databases) ==
    /\ an[t].pc = "idle"
    /\ exec[t].pc = "idle"
    /\ \E given \in BOOLEAN, tableNames \in lists, detailLevel \in levels,
          database \in databases :
          /\ (~given => tableNames = <<>>)
          /\ LET a == [IdleAnalysis EXCEPT !.given = given,
                                           !.tableNames = tableNames,
                                           !.detailLevel = detailLevel,
                                           !.database = database]
                 error == ArgumentError(given, tableNames, database)
                 started ==
                     ForLoop([a EXCEPT
                                !.flags = FlagsOf(detailLevel),
                                !.dbName = IF database # NoDatabase
                                           THEN database ELSE env.database,
                                !.i = 1])
             IN  IF error # "none"
                 THEN /\ an' = [an EXCEPT ![t] =
                                   [a EXCEPT !.pc = "failed", !.error = error]]
                      /\ UNCHANGED exec
                 ELSE /\ an' = [an EXCEPT ![t] = started]
                      /\ exec' = [exec EXCEPT ![t] = CallMade(started)]
    /\ UNCHANGED <<server, query, permLog, config, poolDetails, env, holder>>

\* What a fetcher returns for the rows of its statement.
FacetValue(phase, rows) == rows

\* A slip: the count is never found to be 0.
TableAbsent_Never(checkRows) == FALSE

\* Line 95: checkRows.length === 0 || checkRows[0].count === 0
TableAbsent(checkRows) ==
    Len(checkRows) = 0 \/ checkRows[1].count = [num |-> 0]

\* A slip: the error added to the facets fetched so far.
CatchEntry_KeepsFacets(tableResult, error) ==
    Put(tableResult, "error", AnalyzeFailedMessage(error))

\* Lines 142-147: the entry written when a fetcher has thrown; tableResult
\* is dropped.
CatchEntry(tableResult, error) == ErrorEntry(AnalyzeFailedMessage(error))

\* The executeQuery call awaited by the analysis has completed: the code
\* after the await, up to the next await or the return.
AnalysisResumes(t) ==
    /\ an[t].pc = "running"
    /\ exec[t].pc \in {"returned", "failed"}
    /\ LET a == an[t]
           e == exec[t]
           tableName == a.tableNames[a.i]
           next ==
             IF a.phase = "check"
             THEN IF e.pc = "failed"
                  THEN NextTable(a, ErrorEntry(CheckFailedMessage(tableName, e.error)))
                  ELSE IF TableAbsent(e.result.rows)
                  THEN NextTable(a, ErrorEntry(NotExistMessage(tableName, a.dbName)))
                  ELSE IF FacetAfter(a.flags, "check") = "done"
                  THEN NextTable(a, EmptyObject)
                  ELSE Awaiting(a, FacetAfter(a.flags, "check"))
             ELSE IF e.pc = "failed"
                  THEN NextTable(a, CatchEntry(a.tableResult, e.error))
                  ELSE LET tableResult ==
                               Put(a.tableResult, a.phase,
                                   FacetValue(a.phase, e.result.rows))
                       IN  IF FacetAfter(a.flags, a.phase) = "done"
                           THEN NextTable(a, tableResult)
                           ELSE Awaiting([a EXCEPT !.tableResult = tableResult],
                                         FacetAfter(a.flags, a.phase))
       IN  /\ an' = [an EXCEPT ![t] = next]
           /\ exec' = [exec EXCEPT ![t] = CallMade(next)]
    /\ UNCHANGED <<server, query, permLog, config, poolDetails, env, holder>>

(***************************************************************************)
(* What the database may answer.                                           *)
(***************************************************************************)
Patterns == {"plain", "binary", "mixed"}

PlainRow(i) == [id |-> [num |-> i], name |-> [str |-> <<"a", "B">>]]

BinaryRow(i) ==
    [id |-> [num |-> i],
     data |-> [buf |-> <<i % 256, (7 * i + 171) % 256>>]]

\* Row i of a result set of the given pattern.
Row(pattern, i) ==
    IF pattern = "plain" THEN PlainRow(i)
    ELSE IF pattern = "binary" THEN BinaryRow(i)
    ELSE IF i % 2 = 1 THEN BinaryRow(i)
    ELSE [id |-> [num |-> i], data |-> [buf |-> <<>>],
          name |-> [str |-> <<"c">>]]

ArrayAnswer(pattern, n) ==
    [array |-> TRUE, rows |-> [i \in 1..n |-> Row(pattern, i)]]

\* The OK packet of a statement without a result set.
OkPacket == [array |-> FALSE, packet |-> [affectedRows |-> 1]]

RowCounts ==
    {0, 1, DEFAULT_ROW_LIMIT - 1, DEFAULT_ROW_LIMIT}
        \cup {DEFAULT_ROW_LIMIT + d : d \in 1..MaxExtraRows}

\* Result sets around the row limit.
RichAnswers ==
    {ArrayAnswer(p, n) : p \in Patterns, n \in RowCounts} \cup {OkPacket}

\* Short result sets, for the runs with several calls in flight.
SmallAnswers == {ArrayAnswer("mixed", 2), OkPacket}

\* The tables of the database the analysis reads, by database name.
CatalogTables(dbName) ==
    IF dbName = <<"d", "b">> THEN {<<"t", "1">>, <<"t", "_", "a">>} ELSE {}

TextValue(chars) == [str |-> chars]

\* What the database answers to the statement of activation e of an
\* analysis: the count of the existence check, or the rows of a facet.
CatalogAnswers(e) ==
    IF e.sql = checkSql
    THEN {[array |-> TRUE,
           rows |-> <<[count |-> [num |->
                         IF e.params.tableName \in CatalogTables(e.params.dbName)
                         THEN 1 ELSE 0]]>>]}
    ELSE IF e.sql \in {basicColumnsSql, fullColumnsSql}
    THEN {[array |-> TRUE,
           rows |-> <<[name |-> TextValue(<<"i", "d">>),
                       type |-> TextValue(<<"i", "n", "t">>)]>>]}
    ELSE IF e.sql = foreignKeysSql
    THEN {[array |-> TRUE, rows |-> <<>>]}
    ELSE {[array |-> TRUE,
           rows |-> <<[Key_name |-> TextValue(<<"P", "K">>)]>>]}

(***************************************************************************)
(* Callers' inputs.                                                        *)
(***************************************************************************)
\* A query, a mutation and a definition statement.
SqlSamples ==
    { <<"SELECT", " ", "X">>,
      <<"delete", " ", "X", ";">>,
      <<"DROP", " ", "X">> }

\* The same, and statements no policy permits.
MoreSqlSamples ==
    SqlSamples \cup
        { <<"SELECT", " ", "X", ";", "DROP", " ", "X">>,
          <<"GRANT", " ", "X">>,
          <<"--", "SELECT">>,
          <<"SELECT", " ", "?">> }

\* The database argument of executeQuery: none, a database, and a string
\* that closes the quoting of the USE statement.
Databases == {NoDatabase, <<"d", "b">>, <<"d", Backquote, ";">>}

TableNameSamples ==
    { <<"t", "1">>,        \* a table of the database
      <<"T", "_", "2">>,   \* well-formed, no such table
      <<"t", " ", "!">> }  \* not an identifier

RECURSIVE ListsUpTo(_, _)
ListsUpTo(S, n) ==
    IF n = 0 THEN {<<>>}
    ELSE LET shorter == ListsUpTo(S, n - 1)
         IN  shorter \cup {Append(l, x) : l \in shorter, x \in S}

TableLists == ListsUpTo(TableNameSamples, MaxTables)

DetailLevels == {"BASIC", "STANDARD", "FULL", "full", "verbose", NoDetailLevel}

DatabaseArguments == {NoDatabase, <<"d", "b">>, <<"d", "-", "b">>}

\* The environment: whether host, user and password are set, and
\* MARIADB_DATABASE.
Environments ==
    [complete : BOOLEAN, database : {NoDatabase, <<"d", "b">>},
     allow_dml : {FALSE}, allow_ddl : {FALSE}]

\* The configuration objects given to createConnectionPool.
Configs ==
    [given : {TRUE}, complete : {TRUE}, database : {<<"d", "b">>},
     allow_dml : BOOLEAN, allow_ddl : BOOLEAN]

\* The handle made by createConnectionPool(cfg) in environment e, for the
\* configurations and environments with which it does not throw.
HandleMade(configs, environments) ==
    /\ env \in environments
    /\ config \in configs
    /\ ~CreationThrows(config)
    /\ poolDetails = createConnectionPool(config)

\* The environment of a server that takes all its settings from it.
ServerEnv ==
    [complete |-> TRUE, database |-> <<"d", "b">>,
     allow_dml |-> TRUE, allow_ddl |-> FALSE]

(***************************************************************************)
(* Specifications.                                                         *)
(***************************************************************************)
IdlePool == [k \in Conns |-> 0]

\* The handle made by createConnectionPool() from the environment, no call
\* yet.
Init ==
    /\ query = <<>>
    /\ permLog = <<>>
    /\ HandleMade({NoConfig}, {ServerEnv})
    /\ holder = IdlePool
    /\ exec = [t \in Tasks |-> IdleExec]
    /\ an = [t \in Tasks |-> IdleAnalysis]
    /\ server = IdleServer

\* The permissions callers pass to executeQuery.
Policies == [allowDml : BOOLEAN, allowDdl : BOOLEAN]

ExecNext(tasks, sqls, answers, policies) ==
    \E t \in tasks :
        \/ ExecuteQuery(t, sqls, Databases, policies)
        \/ ExecuteQueryNoPool(t, sqls)
        \/ EndConnection
        \/ GetConnectionResolves(t)
        \/ GetConnectionRejects(t)
        \/ UseResolves(t)
        \/ UseRejects(t)
        \/ QueryResolves(t, answers)
        \/ QueryRejects(t)
        \/ CatchReleaseSettles(t)
        \/ FinallyReleaseSettles(t)

\* Several executeQuery calls in flight on one pool.
Next ==
    ExecNext(Tasks, SqlSamples, SmallAnswers,
             {[allowDml |-> FALSE, allowDdl |-> FALSE]})

Spec == Init /\ [][Next]_vars

\* One executeQuery call, with result sets around the row limit.
NextCall == ExecNext({1}, MoreSqlSamples, RichAnswers, Policies)

\* The handle made from the environment or from a configuration object.
InitCall ==
    /\ query = <<>>
    /\ permLog = <<>>
    /\ HandleMade({NoConfig,
                   [given |-> TRUE, complete |-> TRUE, database |-> NoDatabase,
                    allow_dml |-> FALSE, allow_ddl |-> TRUE]},
                  {ServerEnv})
    /\ holder = IdlePool
    /\ exec = [t \in Tasks |-> IdleExec]
    /\ an = [t \in Tasks |-> IdleAnalysis]
    /\ server = IdleServer

SpecCall == InitCall /\ [][NextCall]_vars

\* One analyzeTables call on a handle, in any environment.
InitAnalyze ==
    /\ query = <<>>
    /\ permLog = <<>>
    /\ HandleMade(Configs, Environments)
    /\ holder = IdlePool
    /\ exec = [t \in Tasks |-> IdleExec]
    /\ an = [t \in Tasks |-> IdleAnalysis]
    /\ server = IdleServer

NextAnalyze ==
    \/ AnalyzeTables(1, TableLists, DetailLevels, DatabaseArguments)
    \/ AnalysisResumes(1)
    \/ GetConnectionResolves(1)
    \/ GetConnectionRejects(1)
    \/ UseResolves(1)
    \/ UseRejects(1)
    \/ QueryResolves(1, CatalogAnswers(exec[1]))
    \/ QueryRejects(1)
    \/ CatchReleaseSettles(1)
    \/ FinallyReleaseSettles(1)

SpecAnalyze == InitAnalyze /\ [][NextAnalyze]_vars

\* Calls competing for the connections of one pool: a permitted and a denied
\* statement, no database argument, from callers that pass no permission.
NextPool ==
    \E t \in Tasks :
        \/ ExecuteQuery(t, {<<"SELECT", " ", "X">>, <<"DROP", " ", "X">>},
                        {NoDatabase}, {[allowDml |-> FALSE, allowDdl |-> FALSE]})
        \/ GetConnectionResolves(t)
        \/ GetConnectionRejects(t)
        \/ QueryResolves(t, {ArrayAnswer("plain", 1)})
        \/ QueryRejects(t)
        \/ CatchReleaseSettles(t)
        \/ FinallyReleaseSettles(t)

SpecPool == Init /\ [][NextPool]_vars

\* The promise of conn.release() settles, and the code after its await runs.
ReleaseSettles ==
    \A t \in Tasks :
        /\ WF_vars(CatchReleaseSettles(t))
        /\ WF_vars(FinallyReleaseSettles(t))

SpecPoolFair == SpecPool /\ ReleaseSettles

(***************************************************************************)
(* The classifier on its own: every SQL text up to MaxQueryLen pieces,     *)
(* built around one word, under every policy.                              *)
(***************************************************************************)
Punctuation == {" ", "\n", ";", "(", "--", "/*", "*/"}

RECURSIVE SeqsUpTo(_, _)
SeqsUpTo(S, n) ==
    IF n = 0 THEN {<<>>}
    ELSE LET shorter == SeqsUpTo(S, n - 1)
         IN  shorter \cup {Append(s, x) : s \in shorter, x \in S}

QueriesAround(word) ==
    SeqsUpTo(Punctuation \cup {word, ToLowerCase(word), "X"}, MaxQueryLen)

InitPerm ==
    /\ \E word \in Words : query \in QueriesAround(word)
    /\ permLog = <<>>
    /\ HandleMade({NoConfig}, {ServerEnv})
    /\ holder = IdlePool
    /\ exec = [t \in Tasks |-> IdleExec]
    /\ an = [t \in Tasks |-> IdleAnalysis]
    /\ server = IdleServer

\* One call checkPermissions(query, allowDml, allowDdl).
CheckPermissions ==
    /\ permLog = <<>>
    /\ \E allowDml \in BOOLEAN, allowDdl \in BOOLEAN :
          permLog' = <<[allowDml |-> allowDml, allowDdl |-> allowDdl,
                        result |-> checkPermissions(query, allowDml, allowDdl)]>>
    /\ UNCHANGED <<server, query, config, poolDetails, env, holder, exec, an>>

NextPerm == CheckPermissions

SpecPerm == InitPerm /\ [][NextPerm]_vars

(***************************************************************************)
(* Properties of the classifier (SpecPerm).                                *)
(***************************************************************************)
\* The checkPermissions call made on query, once made.
Called == permLog # <<>>
Call == permLog[1]

\* The statement as the classifier reads it, and its leading word.
Normalized == normalizeQuery(query)
LeadingKeyword == FirstToken(Normalized)

\* The leading word is one word, of the list.
LeadingKeywordIn(list) ==
    LET command == LeadingKeyword
    IN  Len(command) = 1 /\ command[1] \in list

\* A semicolon before the end of the statement, one trailing semicolon
\* apart.
InnerSemicolon ==
    LET statement == Normalized
    IN  \E i \in 1..(Len(statement) - 1) : statement[i] = ";"

\* C1: a statement whose leading keyword is SELECT, SHOW, DESCRIBE, DESC or
\* EXPLAIN and that has no semicolon but an optional trailing one is
\* permitted under each of the four policies.
C1_QueryAlwaysPermitted ==
    (Called /\ LeadingKeywordIn(DQL_COMMANDS) /\ ~InnerSemicolon)
        => Call.result = TRUE

\* A query statement in lower case with a trailing semicolon, permitted with
\* both flags off.
C1_Witness ==
    /\ Called
    /\ LeadingKeywordIn(DQL_COMMANDS)
    /\ ~InnerSemicolon
    /\ query[1] \notin Words
    /\ query[Len(query)] = ";"
    /\ ~Call.allowDml /\ ~Call.allowDdl
    /\ Call.result = TRUE

\* C2: a single statement whose leading keyword is INSERT, UPDATE, DELETE or
\* REPLACE is permitted iff allowDml, whatever allowDdl is; one whose
\* leading keyword is CREATE, ALTER, DROP, TRUNCATE or RENAME is permitted
\* iff allowDdl, whatever allowDml is.
C2_MutationAndDefinitionFollowTheirFlag ==
    (Called /\ ~InnerSemicolon)
        => /\ LeadingKeywordIn(DML_COMMANDS) => (Call.result = Call.allowDml)
           /\ LeadingKeywordIn(DDL_COMMANDS) => (Call.result = Call.allowDdl)

\* A mutation statement denied although definitions are allowed.
C2_Witness ==
    /\ Called
    /\ ~InnerSemicolon
    /\ LeadingKeywordIn(DML_COMMANDS)
    /\ ~Call.allowDml /\ Call.allowDdl
    /\ Call.result = FALSE

\* C3: a statement whose leading keyword is always disallowed, or is in none
\* of the four lists, is denied under each of the four policies.
C3_ForbiddenAndUnrecognizedDenied ==
    (Called /\ ~LeadingKeywordIn(DQL_COMMANDS \cup DML_COMMANDS \cup DDL_COMMANDS))
        => Call.result = FALSE

\* An always disallowed statement denied with both flags on.
C3_Witness ==
    /\ Called
    /\ LeadingKeywordIn(ALWAYS_DISALLOWED_COMMANDS)
    /\ Call.allowDml /\ Call.allowDdl
    /\ Call.result = FALSE

\* The verdict the leading keyword alone gives under the call's policy.
KeywordVerdict ==
    \/ LeadingKeywordIn(DQL_COMMANDS)
    \/ LeadingKeywordIn(DML_COMMANDS) /\ Call.allowDml
    \/ LeadingKeywordIn(DDL_COMMANDS) /\ Call.allowDdl

\* C4: a statement with a semicolon before its end (one trailing semicolon
\* apart) is denied under every policy whatever its leading keyword; a
\* statement whose only semicolon is its last character gets the verdict of
\* its keyword, which is the verdict of the statement without the semicolon.
C4_SemicolonRule ==
    Called =>
        /\ InnerSemicolon => Call.result = FALSE
        /\ LET statement == Normalized
           IN  (~InnerSemicolon /\ statement # <<>>
                    /\ statement[Len(statement)] = ";")
                  => /\ Call.result = KeywordVerdict
                     /\ Call.result =
                          checkPermissions(SubSeq(statement, 1, Len(statement) - 1),
                                           Call.allowDml, Call.allowDdl)

\* Two query statements in one text, denied with both flags on.
C4_Witness ==
    /\ Called
    /\ InnerSemicolon
    /\ LeadingKeywordIn(DQL_COMMANDS)
    /\ Call.allowDml /\ Call.allowDdl
    /\ Call.result = FALSE

\* A definition statement with a trailing semicolon, permitted by its flag.
C4_WitnessTrailing ==
    /\ Called
    /\ ~InnerSemicolon
    /\ Normalized # <<>> /\ Normalized[Len(Normalized)] = ";"
    /\ LeadingKeywordIn(DDL_COMMANDS)
    /\ Call.result = TRUE

(***************************************************************************)
(* Properties of executeQuery (Spec, SpecCall).                            *)
(***************************************************************************)
Completed(e) == e.pc \in {"returned", "failed"}

\* C5: a call that acquired a connection has called release() exactly once
\* when it completes, whatever the exit path.
C5_ReleasedExactlyOnce ==
    \A t \in Tasks :
        Completed(exec[t]) => exec[t].released = exec[t].acquired

\* The statement of activation e was handed to conn.query.
StatementSent(e) ==
    \E i \in 1..Len(e.sent) :
        e.sent[i].kind = "statement" /\ e.sent[i].text = e.sql

\* The classifier rejects the statement of activation e.
Rejected(e) == ~checkPermissions(e.sql, e.allowDml, e.allowDdl)

\* C6: a statement the classifier rejects is never sent to the database, and
\* the call ends with the 'not permitted' error instead of a result.
C6_DeniedNeverSent ==
    \A t \in Tasks :
        LET e == exec[t]
        IN  /\ (e.pc # "idle" /\ Rejected(e))
                => /\ ~StatementSent(e)
                   /\ e.pc \notin {"query", "returned"}
                   /\ e.result = NoRows
            /\ e.error = "NotPermitted"
                => /\ Rejected(e)
                   /\ e.pc \in {"catchRelease", "finallyRelease", "failed"}
            /\ (Completed(e) /\ Rejected(e))
                => e.error \in {"NotPermitted", "UseFailed",
                                "ConnectionFailure", "NoPool"}

\* A denied mutation statement whose call has failed after the USE statement.
C6_Witness ==
    \E t \in Tasks :
        /\ exec[t].pc = "failed"
        /\ exec[t].error = "NotPermitted"
        /\ exec[t].database # NoDatabase
        /\ Len(exec[t].sent) = 1
        /\ Includes(DML_COMMANDS, Command(exec[t].sql))

Min(a, b) == IF a < b THEN a ELSE b

\* C7: of a result of n rows, executeQuery returns the first
\* min(n, DEFAULT_ROW_LIMIT) rows in their order.
C7_RowCap ==
    \A t \in Tasks :
        LET e == exec[t]
        IN  (e.pc = "returned" /\ e.answer.array)
                => /\ e.result.array
                   /\ Len(e.result.rows)
                        = Min(Len(e.answer.rows), DEFAULT_ROW_LIMIT)
                   /\ \A i \in 1..Len(e.result.rows) :
                         e.result.rows[i].id = e.answer.rows[i].id

\* A result set longer than the limit, returned cut.
C7_Witness ==
    \E t \in Tasks :
        /\ exec[t].pc = "returned"
        /\ exec[t].answer.array
        /\ Len(exec[t].answer.rows) > DEFAULT_ROW_LIMIT
        /\ Len(exec[t].result.rows) = DEFAULT_ROW_LIMIT

\* The value of a lowercase hexadecimal digit, 16 for anything else.
DigitValue(d) ==
    IF \E v \in 0..15 : HexDigits[v + 1] = d
    THEN CHOOSE v \in 0..15 : HexDigits[v + 1] = d
    ELSE 16

\* text is the lowercase hexadecimal writing of bytes.
IsHexOf(text, bytes) ==
    /\ Len(text) = 2 * Len(bytes)
    /\ \A j \in 1..Len(bytes) :
          /\ DigitValue(text[2 * j - 1]) < 16
          /\ DigitValue(text[2 * j]) < 16
          /\ 16 * DigitValue(text[2 * j - 1]) + DigitValue(text[2 * j]) = bytes[j]

\* C8: no returned row holds a Buffer; every Buffer value is replaced by its
\* lowercase hexadecimal text, other values and the row order are kept, and
\* encoding before the row cap gives what encoding after it would.
C8_BinaryAsHex ==
    \A t \in Tasks :
        LET e == exec[t]
        IN  (e.pc = "returned" /\ e.answer.array)
                => /\ \A i \in 1..Len(e.result.rows) :
                         LET got == e.result.rows[i]
                             row == e.answer.rows[i]
                         IN  /\ DOMAIN got = DOMAIN row
                             /\ \A key \in DOMAIN row :
                                   /\ ~IsBuffer(got[key])
                                   /\ IsBuffer(row[key])
                                        => /\ "str" \in DOMAIN got[key]
                                           /\ IsHexOf(got[key].str, row[key].buf)
                                   /\ ~IsBuffer(row[key]) => got[key] = row[key]
                   /\ e.result.rows = ProcessRows(LimitRows(e.answer.rows))

\* A returned row whose Buffer column reads "01b2" where it held 1, 178.
C8_Witness ==
    \E t \in Tasks :
        /\ exec[t].pc = "returned"
        /\ exec[t].answer.array
        /\ Len(exec[t].answer.rows) > DEFAULT_ROW_LIMIT
        /\ "data" \in DOMAIN exec[t].answer.rows[1]
        /\ exec[t].answer.rows[1].data = [buf |-> <<1, 178>>]
        /\ exec[t].result.rows[1].data = [str |-> <<"0", "1", "b", "2">>]


(***************************************************************************)
(* analyzeTables: argument and table name validation.                      *)
(***************************************************************************)
\* The statements analysis a has issued for the table at index j.
IssuedFor(a, j) == {k \in 1..Len(a.issued) : a.issued[k].table = j}

\* C9: analyzeTables called with an empty or missing tableNames list throws
\* InvalidParams 'table_names array cannot be empty' with no connection
\* acquired and no statement issued, whatever the detail level, the database
\* argument and the environment.
C9_EmptyListRejectedFirst ==
    \A t \in Tasks :
        (an[t].pc # "idle" /\ (~an[t].given \/ an[t].tableNames = <<>>))
            => /\ an[t].pc = "failed"
               /\ an[t].error = EmptyListError
               /\ an[t].issued = <<>>
               /\ exec[t] = IdleExec
               /\ holder = IdlePool

\* An empty list given with a detail level, a database argument that is no
\* identifier and an environment without credentials.
C9_Witness ==
    /\ an[1].pc = "failed"
    /\ an[1].given
    /\ an[1].tableNames = <<>>
    /\ an[1].detailLevel = "FULL"
    /\ an[1].database = <<"d", "-", "b">>
    /\ ~env.complete

\* C10: once the arguments are accepted, analyzeTables never throws; a table
\* name that is no identifier is issued no statement and, once the loop has
\* passed it, has the entry {error: "Invalid table name format."} with no
\* other key; every well-formed name the loop has passed was issued its
\* existence check and has an entry.
C10_InvalidNameSkipped ==
    \A t \in Tasks :
        LET a == an[t]
            passed(j) == a.pc = "returned" \/ j < a.i
        IN  /\ (a.pc = "failed" => a.i = 0)
            /\ \A j \in 1..Len(a.tableNames) :
                  LET name == a.tableNames[j]
                  IN  IF IsIdentifier(name)
                      THEN passed(j) =>
                             /\ name \in DOMAIN a.results
                             /\ \E k \in IssuedFor(a, j) :
                                    a.issued[k].what = "check"
                      ELSE /\ IssuedFor(a, j) = {}
                           /\ a.pc # "failed" /\ passed(j) =>
                                /\ name \in DOMAIN a.results
                                /\ DOMAIN a.results[name] = {"error"}
                                /\ a.results[name].error = InvalidTableNameMessage

\* ["t1", "t !"] at STANDARD returned: t1 with its three facets, "t !" with
\* the error entry.
C10_Witness ==
    /\ an[1].pc = "returned"
    /\ an[1].tableNames = << <<"t", "1">>, <<"t", " ", "!">> >>
    /\ DOMAIN an[1].results[<<"t", "1">>] = {"columns", "foreign_keys", "indexes"}
    /\ DOMAIN an[1].results[<<"t", " ", "!">>] = {"error"}

\* An invalid name first: its sibling after it is analyzed all the same.
C10_WitnessInvalidFirst ==
    /\ an[1].pc = "returned"
    /\ an[1].tableNames = << <<"t", " ", "!">>, <<"t", "1">> >>
    /\ "columns" \in DOMAIN an[1].results[<<"t", "1">>]


(***************************************************************************)
(* analyzeTables: tables that do not exist, facets by detail level.        *)
(***************************************************************************)
\* The name at position j of analysis a is well-formed and names no table of
\* the target database.
MissingAt(a, j) ==
    /\ IsIdentifier(a.tableNames[j])
    /\ a.tableNames[j] \notin CatalogTables(a.dbName)

\* Every statement issued for position j after its existence check.
CheckComesFirst(a, j) ==
    \A k \in IssuedFor(a, j) :
        a.issued[k].what # "check"
            => \E c \in IssuedFor(a, j) : c < k /\ a.issued[c].what = "check"

\* C11: when the existence check of a well-formed name answers that the
\* database has no such table, analyzeTables does not throw and the name's
\* entry is {error: "Table '..' does not exist in database '..'."} with no
\* other key; for every table the existence check is issued before any
\* facet statement, and a missing table is issued no column, foreign key or
\* index statement at all.
C11_MissingTableReported ==
    [][\A t \in Tasks :
          LET a == an[t]
              b == an'[t]
          IN  /\ (a.pc = "running" /\ a.phase = "check" /\ b # a
                    /\ exec[t].pc = "returned" /\ MissingAt(a, a.i))
                   => /\ b.pc # "failed"
                      /\ a.tableNames[a.i] \in DOMAIN b.results
                      /\ DOMAIN b.results[a.tableNames[a.i]] = {"error"}
                      /\ b.results[a.tableNames[a.i]].error =
                            NotExistMessage(a.tableNames[a.i], a.dbName)
              /\ \A j \in 1..Len(b.tableNames) :
                    /\ CheckComesFirst(b, j)
                    /\ MissingAt(b, j)
                         => \A k \in IssuedFor(b, j) : b.issued[k].what = "check"
      ]_vars

\* ["T_2"] at BASIC returned with the does-not-exist entry after one
\* statement, the existence check.
C11_Witness ==
    /\ an[1].pc = "returned"
    /\ an[1].tableNames = << <<"T", "_", "2">> >>
    /\ an[1].detailLevel = "BASIC"
    /\ Len(an[1].issued) = 1
    /\ an[1].results[<<"T", "_", "2">>] =
          ErrorEntry(NotExistMessage(<<"T", "_", "2">>, an[1].dbName))


\* The statements of facet `what` issued for position j.
FetchesFor(a, j, what) == {k \in IssuedFor(a, j) : a.issued[k].what = what}

\* The loop of analysis a has passed position j.
Passed(a, j) == a.pc = "returned" \/ (a.pc = "running" /\ j < a.i)

\* The last position the loop has passed that holds the name of position j:
\* the iteration that wrote the name's entry.
Writer(a, j) ==
    CHOOSE l \in 1..Len(a.tableNames) :
        /\ Passed(a, l) /\ a.tableNames[l] = a.tableNames[j]
        /\ \A m \in (l + 1)..Len(a.tableNames) :
              ~(Passed(a, m) /\ a.tableNames[m] = a.tableNames[j])

\* C12: an entry made of facets has exactly the keys of the detail level:
\* columns alone at BASIC, columns, foreign_keys and indexes at STANDARD and
\* at FULL; per table at most one column statement and at most one index
\* statement are issued, exactly one for a table whose entry is made of
\* facets, the full variant at FULL and the basic variant otherwise, and at
\* BASIC no foreign key or index statement at all.
C12_FacetsFollowDetailLevel ==
    \A t \in Tasks :
        LET a == an[t]
            level == DetailUpperCase(a.detailLevel)
        IN  \A j \in 1..Len(a.tableNames) :
              LET name == a.tableNames[j]
                  columns == FetchesFor(a, j, "columns")
                  indexes == FetchesFor(a, j, "indexes")
              IN  /\ Cardinality(columns) <= 1
                  /\ Cardinality(indexes) <= 1
                  /\ \A k \in columns :
                        a.issued[k].sql = IF level = "FULL" THEN fullColumnsSql
                                                             ELSE basicColumnsSql
                  /\ \A k \in indexes :
                        a.issued[k].sql = IF level = "FULL" THEN fullIndexesSql(name)
                                                             ELSE basicIndexesSql
                  /\ level = "BASIC"
                       => indexes = {} /\ FetchesFor(a, j, "foreign_keys") = {}
                  /\ (Passed(a, j) /\ "error" \notin DOMAIN a.results[name])
                       => /\ DOMAIN a.results[name] =
                                IF level = "BASIC" THEN {"columns"}
                                ELSE {"columns", "foreign_keys", "indexes"}
                          /\ Cardinality(FetchesFor(a, Writer(a, j), "columns")) = 1
                          /\ Cardinality(FetchesFor(a, Writer(a, j), "indexes")) =
                                IF level = "BASIC" THEN 0 ELSE 1

\* ["t1"] at BASIC returned with columns alone.
C12_Witness ==
    /\ an[1].pc = "returned"
    /\ an[1].tableNames = << <<"t", "1">> >>
    /\ an[1].detailLevel = "BASIC"
    /\ DOMAIN an[1].results[<<"t", "1">>] = {"columns"}

\* ["t1"] at "full" returned with the three facets from the full variants.
C12_WitnessFull ==
    /\ an[1].pc = "returned"
    /\ an[1].tableNames = << <<"t", "1">> >>
    /\ an[1].detailLevel = "full"
    /\ DOMAIN an[1].results[<<"t", "1">>] = {"columns", "foreign_keys", "indexes"}
    /\ \E k \in 1..Len(an[1].issued) :
          an[1].issued[k].sql = fullIndexesSql(<<"t", "1">>)


(***************************************************************************)
(* The handle: its pool and its permissions (SpecCall).                    *)
(***************************************************************************)
\* C13: no step of an executeQuery call makes or replaces the pool of the
\* handle; a call without a pool fails before it acquires or sends anything;
\* a pool ended by endConnection stays ended, and a call that has no
\* connection yet when the pool is ended never acquires one and never
\* returns rows: it can only fail.
C13_NoPoolRecreation ==
    [][/\ \A t \in Tasks :
             exec'[t] # exec[t] => poolDetails' = poolDetails
       /\ poolDetails.pool.ended => poolDetails'.pool.ended
       /\ \A t \in Tasks :
             /\ (poolDetails.pool.ended
                   /\ exec[t].pc \in {"idle", "getConnection"})
                  => /\ exec'[t].acquired = 0
                     /\ exec'[t].pc \in {"idle", "getConnection", "failed"}
             /\ exec'[t].error = "NoPool"
                  => /\ exec'[t].pc = "failed"
                     /\ exec'[t].acquired = 0
                     /\ exec'[t].sent = <<>>
      ]_vars

\* A permitted statement on an ended pool: the call has failed for want of
\* a connection, nothing acquired, nothing sent.
C13_Witness ==
    /\ poolDetails.pool.ended
    /\ exec[1].pc = "failed"
    /\ exec[1].error = "ConnectionFailure"
    /\ Command(exec[1].sql) = <<"SELECT">>
    /\ exec[1].acquired = 0
    /\ exec[1].sent = <<>>


\* C14: the permissions of the handle are those of the configuration it was
\* made from, at all times, and every executeQuery call that acquires a
\* connection of the handle's pool checks its statement against exactly
\* those permissions, so that no statement the handle's policy denies is
\* sent on the pool.
C14_PolicyFixedPerHandle ==
    /\ poolDetails.allowDml = PoolConfig(config).allow_dml
    /\ poolDetails.allowDdl = PoolConfig(config).allow_ddl
    /\ \A t \in Tasks :
          exec[t].acquired > 0
              => /\ exec[t].allowDml = poolDetails.allowDml
                 /\ exec[t].allowDdl = poolDetails.allowDdl
                 /\ StatementSent(exec[t])
                      => checkPermissions(exec[t].sql, poolDetails.allowDml,
                                          poolDetails.allowDdl)


(***************************************************************************)
(* Timeouts and the pool (SpecPoolFair).                                   *)
(***************************************************************************)
\* Task t holds no connection of the pool.
HoldsNone(t) == \A k \in Conns : holder[k] # t

\* C15: a statement that runs into the timeout never yields a result; its
\* call goes on to end with the timeout error, holding no connection; and
\* no call, whatever its exit path, is complete while the pool still has a
\* connection handed to it.
C15_TimeoutReleases ==
    /\ [](\A t \in Tasks :
             /\ Completed(exec[t]) => HoldsNone(t)
             /\ exec[t].error = "Timeout"
                  => /\ exec[t].pc \in {"catchRelease", "finallyRelease", "failed"}
                     /\ exec[t].result = NoRows)
    /\ \A t \in Tasks :
          (exec[t].error = "Timeout")
              ~> (exec[t].pc = "failed" /\ exec[t].error = "Timeout"
                    /\ HoldsNone(t))

\* Both calls timed out and over, the pool whole again.
C15_Witness ==
    /\ \A t \in 1..2 : exec[t].pc = "failed" /\ exec[t].error = "Timeout"
    /\ holder = IdlePool


(***************************************************************************)
(* Denials (Spec).                                                         *)
(***************************************************************************)
\* The reason checkPermissions logs to the console when it rejects, "none"
\* when it permits.
DenialReason(sql, allowDml, allowDdl) ==
    LET normalizedQuery == normalizeQuery(sql)
        command == FirstToken(normalizedQuery)
    IN  IF normalizedQuery = <<>> THEN "empty or invalid query"
        ELSE IF MultipleStatements(normalizedQuery) THEN "multiple statements"
        ELSE IF command = <<>> THEN "could not identify command"
        ELSE IF Includes(ALWAYS_DISALLOWED_COMMANDS, command)
        THEN "always disallowed"
        ELSE IF Includes(DQL_COMMANDS, command) THEN "none"
        ELSE IF Includes(DML_COMMANDS, command)
        THEN IF allowDml THEN "none" ELSE "requires allowDml=true"
        ELSE IF Includes(DDL_COMMANDS, command)
        THEN IF allowDdl THEN "none" ELSE "requires allowDdl=true"
        ELSE "not recognized"

\* The call of task t was denied and the denial has reached its caller.
DenialReported(t) ==
    exec[t].pc = "failed" /\ exec[t].error = "NotPermitted"

\* C16: two denials reported to callers for different reasons (category of
\* the command, flag to enable) are different errors.
C16_DenialCarriesReason ==
    \A t, u \in Tasks :
        (DenialReported(t) /\ DenialReported(u)
           /\ DenialReason(exec[t].sql, exec[t].allowDml, exec[t].allowDdl)
                # DenialReason(exec[u].sql, exec[u].allowDml, exec[u].allowDdl))
            => exec[t].error # exec[u].error


(***************************************************************************)
(* analyzeTables: the target database and the environment (SpecAnalyze).   *)
(***************************************************************************)
\* The database argument of analysis a if given, else the default database
\* of the handle's pool.
ResolvedDatabase(a) ==
    IF a.database # NoDatabase THEN a.database ELSE poolDetails.pool.database

\* C17: a call with a table list works on the database argument or, without
\* one, on the default database of its handle; when there is neither, or the
\* name is no identifier, it fails with InvalidParams, no table processed
\* and no statement issued.
C17_DatabaseResolved ==
    \A t \in Tasks :
        LET a == an[t]
        IN  (a.pc # "idle" /\ a.given /\ a.tableNames # <<>>)
              => IF ResolvedDatabase(a) = NoDatabase
                    \/ ~IsIdentifier(ResolvedDatabase(a))
                 THEN /\ a.pc = "failed"
                      /\ a.error \in
                           {"InvalidParams: Database name is required",
                            "InvalidParams: Invalid database name format."}
                      /\ a.issued = <<>>
                      /\ a.results = EmptyObject
                 ELSE /\ a.pc # "failed"
                      /\ a.dbName = ResolvedDatabase(a)

\* C18: no analyzeTables or executeQuery call on a handle fails because the
\* host, the user or the password is missing.
C18_NoCredentialErrorAfterCreation ==
    \A t \in Tasks :
        /\ an[t].error # "Error: environment variable is required"
        /\ exec[t].error # "Error: environment variable is required"

\* The names put between backquotes in the statements a call has sent: the
\* database of its USE statement.
InterpolatedNames(e) ==
    { e.database : i \in { j \in 1..Len(e.sent) : e.sent[j].kind = "use" } }

\* C19: every database name and table name put into the text of a statement
\* (the USE statement of executeQuery, SHOW INDEX FROM of the full index
\* fetch) matched ^[a-zA-Z0-9_]+$ before, also when executeQuery is called
\* directly with a database of the caller.
C19_NamesValidatedBeforeInterpolation ==
    \A t \in Tasks :
        /\ \A name \in InterpolatedNames(exec[t]) : IsIdentifier(name)
        /\ \A i \in 1..Len(an[t].issued) :
              LET tableName == an[t].tableNames[an[t].issued[i].table]
              IN  an[t].issued[i].sql = fullIndexesSql(tableName)
                      => IsIdentifier(tableName)

\* The activation e is running a statement on its connection.
UsesConnection(e) == e.pc \in {"use", "query"}

\* Call t calls conn.release() in this step.
CallsRelease(t) == exec'[t].released > exec[t].released

\* C20: under any interleaving of concurrent calls a connection is used and
\* released only by the call that holds it: a call running a statement is
\* the holder of its connection, and no call calls release() on a connection
\* the pool has handed to another call since.
C20_OnlyHolderUsesAndReleases ==
    /\ [](\A t \in Tasks :
              UsesConnection(exec[t]) => holder[exec[t].conn] = t)
    /\ [][\A t \in Tasks :
              CallsRelease(t) => holder[exec'[t].conn] \in {0, t}]_vars

(***************************************************************************)
(* analyzeTables: failures of a facet fetch, detail levels, order.         *)
(***************************************************************************)
FacetKeys == {"columns", "foreign_keys", "indexes"}

\* The fetcher awaited by analysis t has thrown and the analysis resumes.
FacetFetchFails(t) ==
    /\ an[t].pc = "running"
    /\ an[t].phase \in FacetKeys
    /\ exec[t].pc = "failed"
    /\ an'[t] # an[t]

\* C21: when a facet fetch of a table fails, the entry of that table is
\* {error: ...} alone, without the facets fetched before; analyzeTables does
\* not throw and the loop goes on to the tables that follow.  No entry of
\* the map has both an error key and a facet key.
C21_FacetFailureIsErrorOnly ==
    /\ [](\A t \in Tasks : \A name \in DOMAIN an[t].results :
              "error" \in DOMAIN an[t].results[name]
                  => DOMAIN an[t].results[name] = {"error"})
    /\ [][\A t \in Tasks :
              FacetFetchFails(t)
                  => LET a == an[t]
                         b == an'[t]
                         name == a.tableNames[a.i]
                     IN  /\ b.pc \in {"running", "returned"}
                         /\ b.results[name] =
                               ErrorEntry(AnalyzeFailedMessage(exec[t].error))
                         /\ b.i > a.i
                         /\ b.pc = "returned" <=> b.i > Len(b.tableNames)
                         /\ b.pc = "running" => b.phase = "check"]_vars

\* ["t1", "T_2"] at STANDARD returned: the foreign key fetch of t1 failed
\* after its columns were fetched, t1 has the error entry and T_2, after
\* it, was checked and has its own entry.
C21_Witness ==
    /\ an[1].pc = "returned"
    /\ an[1].tableNames = << <<"t", "1">>, <<"T", "_", "2">> >>
    /\ FetchesFor(an[1], 1, "columns") # {}
    /\ FetchesFor(an[1], 1, "foreign_keys") # {}
    /\ FetchesFor(an[1], 1, "indexes") = {}
    /\ DOMAIN an[1].results[<<"t", "1">>] = {"error"}
    /\ FetchesFor(an[1], 2, "check") # {}
    /\ <<"T", "_", "2">> \in DOMAIN an[1].results

\* Detail levels in every spelling, unknown, empty and missing.
AllDetailLevels ==
    {"basic", "Basic", "BASIC", "standard", "Standard", "STANDARD",
     "full", "Full", "FULL", "verbose", "", NoDetailLevel}

\* One analyzeTables call for one table of the database, at any level.
NextLevels ==
    \/ AnalyzeTables(1, {<< <<"t", "1">> >>}, AllDetailLevels, {<<"d", "b">>})
    \/ AnalysisResumes(1)
    \/ GetConnectionResolves(1)
    \/ GetConnectionRejects(1)
    \/ UseResolves(1)
    \/ UseRejects(1)
    \/ QueryResolves(1, CatalogAnswers(exec[1]))
    \/ QueryRejects(1)
    \/ CatchReleaseSettles(1)
    \/ FinallyReleaseSettles(1)

SpecLevels == InitAnalyze /\ [][NextLevels]_vars

\* The flag set the detail level stands for.
FlagsMeant(level) ==
    IF level \in {"basic", "Basic", "BASIC"} THEN {COLUMNS_BASIC}
    ELSE IF level \in {"full", "Full", "FULL"}
    THEN {COLUMNS_FULL, FOREIGN_KEYS, INDEXES_FULL}
    ELSE {COLUMNS_BASIC, FOREIGN_KEYS, INDEXES_BASIC}

\* C22: the detail level is resolved whatever its case, every other value,
\* the empty and the missing one included, resolves to the flags of
\* STANDARD, and the resolution never fails: a call with a table list and a
\* database runs with the flags its level stands for.
C22_DetailLevelResolved ==
    \A t \in Tasks :
        (an[t].pc # "idle" /\ an[t].given)
            => /\ an[t].pc # "failed"
               /\ an[t].flags = FlagsMeant(an[t].detailLevel)

\* A call at level 'Basic' returned with the columns alone.
C22_Witness ==
    /\ an[1].pc = "returned"
    /\ an[1].detailLevel = "Basic"
    /\ an[1].flags = {COLUMNS_BASIC}
    /\ DOMAIN an[1].results[<<"t", "1">>] = {"columns"}

\* A call with the empty level returned with the facets of STANDARD.
C22_WitnessEmpty ==
    /\ an[1].pc = "returned"
    /\ an[1].detailLevel = ""
    /\ DOMAIN an[1].results[<<"t", "1">>] = FacetKeys

\* The connections the pool books to call t.
HeldBy(t) == {k \in Conns : holder[k] = t}

\* Analysis t issues a statement in this step.
IssuesStatement(t) == Len(an'[t].issued) > Len(an[t].issued)

\* C23: one analyzeTables call takes its tables in the order given and
\* issues its statements one after another: a statement is issued only when
\* the one before has completed and its connection is back in the pool, the
\* statements of a table come after those of every table before it, and the
\* call holds at most one connection, and none between two statements.
C23_OneStatementAtATime ==
    /\ [](\A t \in Tasks :
              LET a == an[t]
              IN  /\ Cardinality(HeldBy(t)) <= 1
                  /\ exec[t].pc \in {"idle", "getConnection", "returned",
                                     "failed"} => HeldBy(t) = {}
                  /\ \A j, k \in 1..Len(a.issued) :
                        j < k => a.issued[j].table <= a.issued[k].table
                  /\ a.pc = "running"
                        => a.issued[Len(a.issued)].table = a.i)
    /\ [][\A t \in Tasks :
              IssuesStatement(t)
                  => /\ exec[t].pc \in {"idle", "returned", "failed"}
                     /\ HeldBy(t) = {}
                     /\ Len(an'[t].issued) = Len(an[t].issued) + 1
                     /\ exec'[t].pc = "getConnection"]_vars

\* The second table of a list at its first facet statement, on a connection,
\* after the four statements of the first table.
C23_Witness ==
    /\ an[1].pc = "running"
    /\ an[1].i = 2
    /\ an[1].phase = "columns"
    /\ exec[1].pc = "query"
    /\ Cardinality(HeldBy(1)) = 1
    /\ Cardinality(IssuedFor(an[1], 1)) = 4
    /\ Cardinality(IssuedFor(an[1], 2)) = 2

(***************************************************************************)
(* The classifier called under every policy, twice over (SpecVerdicts).    *)
(***************************************************************************)
\* The four policies, in the order the tests go through them.
PolicyOrder ==
    << [allowDml |-> FALSE, allowDdl |-> FALSE],
       [allowDml |-> TRUE, allowDdl |-> FALSE],
       [allowDml |-> FALSE, allowDdl |-> TRUE],
       [allowDml |-> TRUE, allowDdl |-> TRUE] >>

\* checkPermissions(query, allowDml, allowDdl) called once for each policy.
CheckUnderEveryPolicy ==
    /\ Len(permLog) < 2 * Len(PolicyOrder)
    /\ permLog' = permLog \o
          [i \in 1..Len(PolicyOrder) |->
              [allowDml |-> PolicyOrder[i].allowDml,
               allowDdl |-> PolicyOrder[i].allowDdl,
               result |-> checkPermissions(query, PolicyOrder[i].allowDml,
                                           PolicyOrder[i].allowDdl)]]
    /\ UNCHANGED <<server, query, config, poolDetails, env, holder, exec, an>>

NextVerdicts == CheckUnderEveryPolicy

SpecVerdicts == InitPerm /\ [][NextVerdicts]_vars

RECURSIVE BlankText(_)
\* The text is empty, or nothing but whitespace, line comments and closed
\* block comments.
BlankText(q) ==
    IF q = <<>> THEN TRUE
    ELSE IF Head(q) \in Whitespace THEN BlankText(Tail(q))
    ELSE IF Head(q) = "--" THEN BlankText(SkipLine(Tail(q)))
    ELSE IF Head(q) = "/*" /\ HasClose(Tail(q))
    THEN BlankText(AfterClose(Tail(q)))
    ELSE FALSE

\* C24: a statement that is empty after normalization (the empty string,
\* whitespace only, comments only) is rejected by checkPermissions under
\* each of the four policies.
C24_EmptyStatementRejected ==
    (Called /\ (BlankText(query) \/ normalizeQuery(query) = <<>>))
        => \A i \in 1..Len(permLog) : permLog[i].result = FALSE

\* A block comment around a query keyword, rejected under the four policies.
C24_Witness ==
    /\ Len(permLog) = Len(PolicyOrder)
    /\ Len(query) = 3
    /\ query[1] = "/*" /\ query[2] \in DQL_COMMANDS /\ query[3] = "*/"
    /\ \A i \in 1..Len(permLog) : permLog[i].result = FALSE

\* A line comment alone, with a query keyword in it.
C24_WitnessLineComment ==
    /\ Called
    /\ Len(query) = 2
    /\ query[1] = "--" /\ query[2] \in DQL_COMMANDS
    /\ \A i \in 1..Len(permLog) : permLog[i].result = FALSE

(***************************************************************************)
(* executeQuery: how the parameters are bound.                             *)
(***************************************************************************)
\* The statements analyzeTables gives with the mapping {dbName, tableName};
\* every other call gives an array.
MappingGiven(e) ==
    e.sql \in {checkSql, basicColumnsSql, fullColumnsSql, foreignKeysSql,
               basicIndexesSql}

\* C25: the binding mode of a statement follows the shape of params: an
\* array is bound positionally to the "?" placeholders, a mapping to the
\* named placeholders, never both, and no fixed flag decides.
C25_BindingFollowsParams ==
    \A t \in Tasks :
        StatementSent(exec[t])
            => (QueryOptions(exec[t]).namedPlaceholders
                   <=> MappingGiven(exec[t]))

(***************************************************************************)
(* index.ts: the CallTool request handler and the SIGINT handler.          *)
(***************************************************************************)
ToolNames ==
    {"list_databases", "list_tables", "analyze_table_schema", "execute_query"}

\* The handler of lines 559-690 for one request: createConnectionPool() is
\* called and its return value dropped (the process exits when it throws),
\* then the tool runs.  The tools call executeQuery and analyzeTables
\* without a handle, so no statement of theirs reaches a pool.
CallTool ==
    /\ ~server.stopped
    /\ Len(server.handled) < MaxToolCalls
    /\ \E name \in ToolNames :
          server' =
              IF CreationThrows(NoConfig)
              THEN [server EXCEPT !.stopped = TRUE]
              ELSE [server EXCEPT
                      !.pools = Append(@, createConnectionPool(NoConfig).pool),
                      !.handled = Append(@, name)]
    /\ UNCHANGED <<query, permLog, config, poolDetails, env, holder, exec, an>>

\* endConnection(pool) for the pools in `ending`.
PoolsAfterEnd(pools, ending) ==
    [i \in 1..Len(pools) |->
        IF i \in ending THEN [pools[i] EXCEPT !.ended = TRUE] ELSE pools[i]]

\* The SIGINT handler of lines 706-710: endConnection() is called without a
\* pool, which ends none, and the process exits.
Sigint ==
    /\ ~server.stopped
    /\ server' = [server EXCEPT !.pools = PoolsAfterEnd(@, {}),
                                !.stopped = TRUE]
    /\ UNCHANGED <<query, permLog, config, poolDetails, env, holder, exec, an>>

\* The server started with or without host, user and password in its
\* environment; it keeps no handle.
InitServer ==
    /\ server = IdleServer
    /\ query = <<>>
    /\ permLog = <<>>
    /\ env \in {ServerEnv, [ServerEnv EXCEPT !.complete = FALSE]}
    /\ config = NoConfig
    /\ poolDetails = [pool |-> [ended |-> TRUE, database |-> NoDatabase],
                      allowDml |-> FALSE, allowDdl |-> FALSE]
    /\ holder = IdlePool
    /\ exec = [t \in Tasks |-> IdleExec]
    /\ an = [t \in Tasks |-> IdleAnalysis]

NextServer == CallTool \/ Sigint

SpecServer == InitServer /\ [][NextServer]_vars

\* C26: the server makes its pool once, at the first tool call, and the
\* calls after it use that pool: whatever tool calls were handled, one pool
\* was created, and the SIGINT handler ends it.
C26_OnePoolPerServer ==
    /\ server.handled # <<>> => Len(server.pools) = 1
    /\ server.stopped
          => \A i \in 1..Len(server.pools) : server.pools[i].ended

(***************************************************************************)
(* validators.ts: isAllowedQuery.  Its normalizeQuery (lines 59-66) is the *)
(* chain of replacements of permissionService.ts and its four command      *)
(* lists (lines 8-52) are the same lists.                                  *)
(***************************************************************************)
isAllowedQuery(sql, allowDml, allowDdl) ==
    LET normalizedQuery == normalizeQuery(sql)
        command == FirstToken(normalizedQuery)
    IN  IF normalizedQuery = <<>> THEN FALSE
        ELSE IF /\ \E i \in 1..Len(normalizedQuery) : normalizedQuery[i] = ";"
                /\ normalizedQuery[Len(normalizedQuery)] # ";"
        THEN FALSE
        ELSE IF command = <<>> THEN FALSE
        ELSE IF Includes(ALWAYS_DISALLOWED_COMMANDS, command) THEN FALSE
        ELSE IF Includes(DQL_COMMANDS, command) THEN TRUE
        ELSE IF Includes(DML_COMMANDS, command) THEN allowDml
        ELSE IF Includes(DDL_COMMANDS, command) THEN allowDdl
        ELSE FALSE

\* One call isAllowedQuery(query, allowDml, allowDdl).
IsAllowedQuery ==
    /\ permLog = <<>>
    /\ \E allowDml \in BOOLEAN, allowDdl \in BOOLEAN :
          permLog' = <<[allowDml |-> allowDml, allowDdl |-> allowDdl,
                        result |-> isAllowedQuery(query, allowDml, allowDdl)]>>
    /\ UNCHANGED <<server, query, config, poolDetails, env, holder, exec, an>>

NextValidators == IsAllowedQuery

SpecValidators == InitPerm /\ [][NextValidators]_vars

\* C27: isAllowedQuery rejects, under every policy, every statement with a
\* semicolon anywhere but at its very end, and so gives for every statement
\* and policy the verdict checkPermissions gives.
C27_ValidatorAgreesWithClassifier ==
    Called =>
        /\ InnerSemicolon => Call.result = FALSE
        /\ Call.result =
              checkPermissions(query, Call.allowDml, Call.allowDdl)

(***************************************************************************)
(* More calls than connections (SpecCrowd): executeQuery calls and one     *)
(* analyzeTables call on the pool of two connections.                      *)
(***************************************************************************)
Calls == 1..MaxCalls

InitCrowd ==
    /\ server = IdleServer
    /\ query = <<>>
    /\ permLog = <<>>
    /\ HandleMade({NoConfig}, {ServerEnv})
    /\ holder = IdlePool
    /\ exec = [t \in Calls |-> IdleExec]
    /\ an = [t \in Calls |-> IdleAnalysis]

\* What the database answers to call t.
AnswersTo(t) ==
    IF an[t].pc = "running" THEN CatalogAnswers(exec[t])
    ELSE {ArrayAnswer("plain", 1)}

NextCrowd ==
    \E t \in Calls :
        \/ ExecuteQuery(t, {<<"SELECT", " ", "X">>}, {NoDatabase},
                        {[allowDml |-> FALSE, allowDdl |-> FALSE]})
        \/ t = 1 /\ AnalyzeTables(t, {<< <<"T", "_", "2">> >>}, {"BASIC"},
                                   {<<"d", "b">>})
        \/ AnalysisResumes(t)
        \/ GetConnectionResolves(t)
        \/ GetConnectionRejects(t)
        \/ QueryResolves(t, AnswersTo(t))
        \/ QueryRejects(t)
        \/ CatchReleaseSettles(t)
        \/ FinallyReleaseSettles(t)

SpecCrowd == InitCrowd /\ [][NextCrowd]_vars

\* The calls that have a connection they have not released yet.
Holders == {t \in Calls : UsesConnection(exec[t])}

\* C28: on the pool of two connections, whatever the number of concurrent
\* executeQuery and analyzeTables calls, at no time do more than two calls
\* hold a connection, and a call that is over holds none.
C28_AtMostTwoHolders ==
    /\ Cardinality(Holders) <= connectionLimit
    /\ \A t \in Calls : Completed(exec[t]) => HoldsNone(t)

\* C29: checkPermissions is monotone in the policy: a statement permitted
\* under a policy is permitted under every policy that has a flag more, so
\* switching a flag on never turns a permitted statement into a denied one;
\* and a statement gets the same verdict under the same policy at every
\* call.
C29_MonotoneInPolicy ==
    \A i, j \in 1..Len(permLog) :
        (/\ permLog[i].allowDml => permLog[j].allowDml
         /\ permLog[i].allowDdl => permLog[j].allowDdl
         /\ permLog[i].result)
            => permLog[j].result

\* A definition statement classified twice under each policy: denied with
\* both flags off and with allowDml alone, permitted with allowDdl, both
\* times.
C29_Witness ==
    /\ Len(permLog) = 2 * Len(PolicyOrder)
    /\ LeadingKeywordIn(DDL_COMMANDS)
    /\ \E i, j \in 1..Len(permLog) :
          /\ ~permLog[i].allowDdl /\ ~permLog[i].result
          /\ permLog[j].allowDdl /\ permLog[j].result
    /\ \A i \in 1..Len(PolicyOrder) :
          permLog[i] = permLog[i + Len(PolicyOrder)]

(***************************************************************************)
(* analyzeTables: the keys of the returned map (SpecKeys).                 *)
(***************************************************************************)
\* One analyzeTables call at BASIC for tables t1 and __proto__ of the
\* database, in any order and with repeats.
NextKeys ==
    \/ AnalyzeTables(1, ListsUpTo({<<"t", "1">>, ProtoName}, MaxTables),
                     {"BASIC"}, {<<"d", "b">>})
    \/ AnalysisResumes(1)
    \/ GetConnectionResolves(1)
    \/ GetConnectionRejects(1)
    \/ QueryResolves(1, CatalogAnswers(exec[1]))
    \/ QueryRejects(1)
    \/ CatchReleaseSettles(1)
    \/ FinallyReleaseSettles(1)

SpecKeys == InitAnalyze /\ [][NextKeys]_vars

\* The names at the positions the loop of analysis t passes in this step.
NamesPassed(t) ==
    {an[t].tableNames[j] :
        j \in {l \in 1..Len(an[t].tableNames) :
                  Passed(an'[t], l) /\ ~Passed(an[t], l)}}

\* C30: when analyzeTables returns, the keys of the returned map are the
\* distinct names of tableNames, one entry for each and no other key; a
\* name given more than once has the entry of its last occurrence: an entry
\* changes only when the loop passes a position with its name.
C30_KeysAreTheNames ==
    /\ [](\A t \in Tasks :
              an[t].pc = "returned"
                  => OwnKeys(an[t].results)
                       = {an[t].tableNames[j] : j \in 1..Len(an[t].tableNames)})
    /\ [][\A t \in Tasks :
              an[t].pc = "running"
                  => \A name \in DOMAIN an'[t].results :
                        \/ name \in NamesPassed(t)
                        \/ /\ name \in DOMAIN an[t].results
                           /\ an'[t].results[name] = an[t].results[name]]_vars

====
